---- MODULE Spec2Model ----
(***************************************************************************)
(* A model of the binary codec of SWAN-community/common-go: the read and   *)
(* write operations of io.go over a bytes.Buffer, the date codecs over     *)
(* time.Time / time.Duration, and the composite (array, marshaller)        *)
(* operations built from them.                                             *)
(*                                                                         *)
(* Numbers wider than TLC's integers (uint32, the int64 of time.Duration,  *)
(* the 53-bit significand of float64) are natural numbers written as       *)
(* sequences of 15-bit limbs, least significant first, with no leading zero *)
(* limb: zero is << >>.  Bytes, uint16 values and lengths are integers.    *)
(***************************************************************************)
EXTENDS Integers, Sequences, FiniteSets, TLC

VARIABLES buffer, res, fields, nops, mode

vars == <<buffer, res, fields, nops, mode>>

(***************************************************************************)
(* Natural numbers of any width, in limbs of 15 bits.                      *)
(***************************************************************************)
Base == 2^15

Min2(x, y) == IF x <= y THEN x ELSE y

Max2(x, y) == IF x >= y THEN x ELSE y

RECURSIVE Norm(_)
Norm(a) ==
  IF a = << >> THEN << >>
  ELSE IF a[Len(a)] # 0 THEN a
  ELSE Norm(SubSeq(a, 1, Len(a) - 1))

RECURSIVE FromInt(_)
FromInt(n) == IF n = 0 THEN << >> ELSE <<n % Base>> \o FromInt(n \div Base)

\* Only for values below 2^31.
RECURSIVE ToInt(_)
ToInt(a) == IF a = << >> THEN 0 ELSE a[1] + Base * ToInt(Tail(a))

Limb(a, i) == IF i <= Len(a) THEN a[i] ELSE 0

RECURSIVE AddC(_, _, _, _)
AddC(x, y, i, c) ==
  IF i > Len(x) /\ i > Len(y)
  THEN (IF c = 0 THEN << >> ELSE <<c>>)
  ELSE LET s == Limb(x, i) + Limb(y, i) + c
       IN  <<s % Base>> \o AddC(x, y, i + 1, s \div Base)

Add(x, y) == AddC(x, y, 1, 0)

\* x - y, for x >= y
RECURSIVE SubC(_, _, _, _)
SubC(x, y, i, c) ==
  IF i > Len(x) THEN << >>
  ELSE LET s == Limb(x, i) - Limb(y, i) - c
       IN  <<s % Base>> \o SubC(x, y, i + 1, IF s < 0 THEN 1 ELSE 0)

Sub(x, y) == Norm(SubC(x, y, 1, 0))

Less(x, y) ==
  \/ Len(x) < Len(y)
  \/ /\ Len(x) = Len(y)
     /\ \E i \in 1..Len(x) :
          /\ x[i] < y[i]
          /\ \A j \in (i + 1)..Len(x) : x[j] = y[j]

Leq(x, y) == x = y \/ Less(x, y)

\* x * m for 0 <= m < Base
RECURSIVE MulSmallC(_, _, _, _)
MulSmallC(x, m, i, c) ==
  IF i > Len(x)
  THEN (IF c = 0 THEN << >> ELSE <<c>>)
  ELSE LET s == x[i] * m + c
       IN  <<s % Base>> \o MulSmallC(x, m, i + 1, s \div Base)

MulSmall(x, m) == IF m = 0 THEN << >> ELSE MulSmallC(x, m, 1, 0)

ShlLimbs(a, k) == IF a = << >> THEN << >> ELSE [i \in 1..k |-> 0] \o a

RECURSIVE Mul(_, _)
Mul(x, y) ==
  IF y = << >> \/ x = << >> THEN << >>
  ELSE Add(MulSmall(x, y[1]), ShlLimbs(Mul(x, Tail(y)), 1))

\* Quotient and remainder of x by 0 < d < Base, from the top limb down:
\* DivSmallR is the remainder of the limbs i..Len(x) of x.
RECURSIVE DivSmallR(_, _, _)
DivSmallR(x, d, i) ==
  IF i > Len(x) THEN 0 ELSE (DivSmallR(x, d, i + 1) * Base + x[i]) % d

DivSmall(x, d) ==
  [q |-> Norm([i \in 1..Len(x) |->
                 (DivSmallR(x, d, i + 1) * Base + x[i]) \div d]),
   r |-> DivSmallR(x, d, 1)]

\* Quotient of x by the product of the (small) factors fs, and whether the
\* division was exact.
RECURSIVE DivFactors(_, _)
DivFactors(x, fs) ==
  IF fs = << >> THEN [q |-> x, exact |-> TRUE]
  ELSE LET d    == DivSmall(x, Head(fs))
           rest == DivFactors(d.q, Tail(fs))
       IN  [q |-> rest.q, exact |-> d.r = 0 /\ rest.exact]

RECURSIVE Product(_)
Product(fs) ==
  IF fs = << >> THEN <<1>> ELSE MulSmall(Product(Tail(fs)), Head(fs))

RECURSIVE IntBitLen(_)
IntBitLen(n) == IF n = 0 THEN 0 ELSE 1 + IntBitLen(n \div 2)

LimbBits == IntBitLen(Base - 1)

BitLen(a) ==
  IF a = << >> THEN 0 ELSE LimbBits * (Len(a) - 1) + IntBitLen(a[Len(a)])

Shl(a, k) == ShlLimbs(MulSmall(a, 2^(k % LimbBits)), k \div LimbBits)

Shr(a, k) ==
  IF k \div LimbBits >= Len(a) THEN << >>
  ELSE DivSmall(SubSeq(a, k \div LimbBits + 1, Len(a)), 2^(k % LimbBits)).q

\* a mod 2^k
Low(a, k) ==
  LET n == k \div LimbBits
  IN  IF n >= Len(a) THEN a
      ELSE Norm(SubSeq(a, 1, n) \o <<a[n + 1] % (2^(k % LimbBits))>>)

Pow2(k) == Shl(<<1>>, k)

IsOdd(a) == a # << >> /\ a[1] % 2 = 1

\* Signed integers: a sign and a magnitude; zero is never negative.
SInt(neg, mag) == [neg |-> neg /\ mag # << >>, mag |-> mag]

SLess(x, y) ==
  IF x.neg /\ ~y.neg THEN TRUE
  ELSE IF ~x.neg /\ y.neg THEN FALSE
  ELSE IF x.neg THEN Less(y.mag, x.mag)
  ELSE Less(x.mag, y.mag)

SAdd(x, y) ==
  IF x.neg = y.neg THEN SInt(x.neg, Add(x.mag, y.mag))
  ELSE IF Less(x.mag, y.mag) THEN SInt(y.neg, Sub(y.mag, x.mag))
  ELSE SInt(x.neg, Sub(x.mag, y.mag))

SNeg(x) == SInt(~x.neg, x.mag)

SSub(x, y) == SAdd(x, SNeg(y))

(***************************************************************************)
(* float64: a value is (-1)^neg * m * 2^e with m a natural number of at    *)
(* most 53 bits.  Every operation computes the exact result and rounds it  *)
(* to 53 significant bits, to nearest, ties to even (IEEE 754 binary64;    *)
(* the values of this model stay far from its exponent limits).            *)
(***************************************************************************)
\* n * 2^e rounded to 53 significant bits
Round53(n, e) ==
  IF BitLen(n) <= 53 THEN [m |-> n, e |-> e]
  ELSE LET s    == BitLen(n) - 53
           q    == Shr(n, s)
           r    == Low(n, s)
           half == Pow2(s - 1)
           up   == Less(half, r) \/ (r = half /\ IsOdd(q))
       IN  [m |-> IF up THEN Add(q, <<1>>) ELSE q, e |-> e + s]

\* float64(n) for a natural number n
Float64(n) == Round53(n, 0)

\* x + y
FAdd(x, y) ==
  LET e0 == Min2(x.e, y.e)
  IN  Round53(Add(Shl(x.m, x.e - e0), Shl(y.m, y.e - e0)), e0)

\* x / d, d the product of the small factors fs: the quotient is taken to
\* at least 56 bits with a sticky bit for the discarded remainder.
FDiv(x, fs) ==
  IF x.m = << >> THEN x
  ELSE LET k  == 56 + BitLen(Product(fs))
           dv == DivFactors(Shl(x.m, k), fs)
           n  == Add(Shl(dv.q, 1), IF dv.exact THEN << >> ELSE <<1>>)
       IN  Round53(n, x.e - k - 1)

\* The integer part (truncation toward zero) of x
FTrunc(x) == IF x.e >= 0 THEN Shl(x.m, x.e) ELSE Shr(x.m, 0 - x.e)

(***************************************************************************)
(* bytes.Buffer: buf is the slice b.buf (its length is len(b.buf)), off    *)
(* the read offset b.off and cap the capacity of the backing array.        *)
(* The unread bytes are buf[off+1 .. Len(buf)].                            *)
(***************************************************************************)
Nil == "nil"

smallBufferSize == 64

\* A slice of the buffer's array that a read handed to its caller: orig are
\* the bytes it held then, data the bytes the caller finds in it now, at the
\* index in the array where it starts; it is live while the buffer still uses
\* that array.
NoSlice == [orig |-> << >>, data |-> << >>, at |-> 0, live |-> FALSE]

\* var b bytes.Buffer.  held is the slice the last read of a byte array
\* returned.
ZeroBuffer == [buf |-> << >>, off |-> 0, cap |-> 0, held |-> NoSlice]

\* bytes.NewBuffer(data)
NewBuffer(data) == [buf |-> data, off |-> 0, cap |-> Len(data), held |-> NoSlice]

\* b.Len()
BufLen(b) == Len(b.buf) - b.off

\* b.Bytes()
Unread(b) == SubSeq(b.buf, b.off + 1, Len(b.buf))

\* A variant of b.Next(n) that hands out nothing, and consumes nothing, when
\* fewer than n bytes are unread
BufNextOrNothing(b, n) ==
  IF n > BufLen(b) THEN [b |-> b, data |-> << >>]
  ELSE [b |-> [b EXCEPT !.off = @ + n],
        data |-> SubSeq(b.buf, b.off + 1, b.off + n)]

\* A variant of b.Next(n) that moves the offset by n whatever is unread
BufNextUnclamped(b, n) ==
  [b |-> [b EXCEPT !.off = @ + n],
   data |-> SubSeq(b.buf, b.off + 1, Min2(b.off + n, Len(b.buf)))]

\* b.Next(n), n >= 0: at most the unread bytes
BufNext(b, n) ==
  LET k == Min2(n, BufLen(b))
  IN  [b |-> [b EXCEPT !.off = @ + k],
       data |-> SubSeq(b.buf, b.off + 1, b.off + k)]

\* b.Next(int(l)) for a uint32 l (int is 64 bits wide)
NextUint32(b, l) ==
  IF Less(FromInt(BufLen(b)), l) THEN BufNext(b, BufLen(b)) ELSE BufNext(b, ToInt(l))

\* b.grow(n) followed by the copy of p: the buffer after appending p when
\* the spare capacity did not take it.
Grow(b, p) ==
  LET n  == Len(p)
      m  == BufLen(b)
      b1 == IF m = 0 /\ b.off # 0 THEN [b EXCEPT !.buf = << >>, !.off = 0]
            ELSE b
  IN  IF n <= b1.cap - Len(b1.buf) THEN [b1 EXCEPT !.buf = @ \o p]
      ELSE IF b1.cap = 0 /\ n <= smallBufferSize
      THEN [buf |-> p, off |-> 0, cap |-> smallBufferSize, held |-> b.held]
      ELSE IF n <= (b1.cap \div 2) - m
      THEN [buf |-> Unread(b1) \o p, off |-> 0, cap |-> b1.cap, held |-> b.held]
      ELSE [buf |-> Unread(b1) \o p, off |-> 0,
            cap |-> Max2(m + b1.off + n, 2 * (b1.cap - b1.off)), held |-> b.held]

\* b.Write(p) puts the bytes of the buffer in a new array: they fit neither
\* the spare capacity, nor the array of an emptied buffer, nor the array
\* once the unread bytes are moved to its front
NewArray(b, p) ==
  LET n == Len(p)
      m == BufLen(b)
      l == IF m = 0 /\ b.off # 0 THEN 0 ELSE Len(b.buf)
  IN  n > b.cap - Len(b.buf) /\ n > b.cap - l /\ n > (b.cap \div 2) - m

\* The slice h after b.Write(p) made the buffer nb of b: a write into the
\* array the slice is part of shows through the slice
Seen(h, b, nb, p) ==
  IF ~h.live THEN h
  ELSE IF NewArray(b, p) THEN [h EXCEPT !.live = FALSE]
  ELSE [h EXCEPT !.data = [i \in 1..Len(h.data) |->
                             IF h.at + i <= Len(nb.buf) THEN nb.buf[h.at + i]
                             ELSE h.data[i]]]

\* b.Write(p), b.WriteString(s): the bytes are appended, n = len(p) and the
\* error is always nil
BufWrite(b, p) ==
  LET nb == IF Len(p) <= b.cap - Len(b.buf) THEN [b EXCEPT !.buf = @ \o p]
            ELSE Grow(b, p)
  IN  [b   |-> [nb EXCEPT !.held = Seen(b.held, b, nb, p)],
       n   |-> Len(p),
       err |-> Nil]

\* b.WriteByte(c)
BufWriteByte(b, c) == BufWrite(b, <<c>>)

\* b.ReadBytes(delim): through the first delim, or all that is left and
\* io.EOF when there is none
ReadBytes(b, delim) ==
  LET at == {i \in (b.off + 1)..Len(b.buf) : b.buf[i] = delim}
  IN  IF at = {}
      THEN [b |-> [b EXCEPT !.off = Len(b.buf)], data |-> Unread(b),
            err |-> "EOF"]
      ELSE LET end == CHOOSE i \in at : \A j \in at : i <= j
           IN  [b |-> [b EXCEPT !.off = end],
                data |-> SubSeq(b.buf, b.off + 1, end), err |-> Nil]

(***************************************************************************)
(* encoding/binary.LittleEndian                                            *)
(***************************************************************************)
\* byte(v >> (8 * k)) of a natural number v
ByteOf(v, k) == DivSmall(Shr(v, 8 * k), 256).r

LittleEndianUint16(d) == d[1] + 256 * d[2]

\* A variant with the high byte first
BigEndianPutUint16(i) == <<(i \div 256) % 256, i % 256>>

LittleEndianPutUint16(i) == <<i % 256, (i \div 256) % 256>>

\* A variant with the high byte first
BigEndianUint32(d) ==
  Add(FromInt(d[4] + 256 * d[3] + 65536 * d[2]), Shl(FromInt(d[1]), 24))

LittleEndianUint32(d) ==
  Add(FromInt(d[1] + 256 * d[2] + 65536 * d[3]), Shl(FromInt(d[4]), 24))

LittleEndianPutUint32(i) == <<ByteOf(i, 0), ByteOf(i, 1), ByteOf(i, 2), ByteOf(i, 3)>>

(***************************************************************************)
(* The scalar codec.  A read returns [b, val, err], a write [b, err].      *)
(***************************************************************************)
ReadByte(b) ==
  LET d == BufNext(b, 1)
  IN  IF Len(d.data) # 1 THEN [b |-> d.b, val |-> 0, err |-> "bytes incorrect for byte"]
      ELSE [b |-> d.b, val |-> d.data[1], err |-> Nil]

WriteByte(b, i) ==
  LET w == BufWriteByte(b, i) IN [b |-> w.b, err |-> w.err]

\* A variant of ReadBool that takes the byte 1 alone for true
ReadBoolStrict(b) ==
  LET d == BufNext(b, 1)
  IN  IF Len(d.data) # 1 THEN [b |-> d.b, val |-> FALSE, err |-> "bytes incorrect for bool"]
      ELSE [b |-> d.b, val |-> d.data[1] = 1, err |-> Nil]

ReadBool(b) ==
  LET d == BufNext(b, 1)
  IN  IF Len(d.data) # 1 THEN [b |-> d.b, val |-> FALSE, err |-> "bytes incorrect for bool"]
      ELSE [b |-> d.b, val |-> d.data[1] # 0, err |-> Nil]

WriteBool(b, v) ==
  LET w == BufWriteByte(b, IF v THEN 1 ELSE 0) IN [b |-> w.b, err |-> w.err]

ReadUint32(b) ==
  LET d == BufNext(b, 4)
  IN  IF Len(d.data) # 4 THEN [b |-> d.b, val |-> << >>, err |-> "bytes incorrect for Uint32"]
      ELSE [b |-> d.b, val |-> LittleEndianUint32(d.data), err |-> Nil]

ReadUint16(b) ==
  LET d == BufNext(b, 2)
  IN  IF Len(d.data) # 2 THEN [b |-> d.b, val |-> 0, err |-> "bytes incorrect for Uint16"]
      ELSE [b |-> d.b, val |-> LittleEndianUint16(d.data), err |-> Nil]

\* The comparison every writer makes of the count b.Write returned
Written(w, v) ==
  IF w.err = Nil /\ w.n # Len(v) THEN "mismatched lengths" ELSE w.err

WriteUint16(b, i) ==
  LET v == LittleEndianPutUint16(i)
      w == BufWrite(b, v)
  IN  [b |-> w.b, err |-> Written(w, v)]

WriteUint32(b, i) ==
  LET v == LittleEndianPutUint32(i)
      w == BufWrite(b, v)
  IN  [b |-> w.b, err |-> Written(w, v)]

(***************************************************************************)
(* float32: sign, biased exponent and fraction fields.                     *)
(***************************************************************************)
\* math.Float32bits(f)
Float32bits(f) ==
  Add(Shl(FromInt(f.sign), 31), Add(Shl(FromInt(f.exp), 23), FromInt(f.frac)))

\* math.Float32frombits(u)
Float32frombits(u) ==
  [sign |-> ToInt(Shr(u, 31)),
   exp  |-> ToInt(Low(Shr(u, 23), 8)),
   frac |-> ToInt(Low(u, 23))]

WriteFloat32(b, f) == WriteUint32(b, Float32bits(f))

ReadFloat32(b) ==
  LET f == ReadUint32(b)
  IN  IF f.err # Nil THEN [b |-> f.b, val |-> Float32frombits(<< >>), err |-> f.err]
      ELSE [b |-> f.b, val |-> Float32frombits(f.val), err |-> Nil]

(***************************************************************************)
(* Strings and byte arrays.  A string is the sequence of its bytes.        *)
(***************************************************************************)
\* A variant of ReadString that keeps the terminator in the string
ReadStringWithTerminator(b) ==
  LET s == ReadBytes(b, 0)
  IN  IF s.err = Nil THEN [b |-> s.b, val |-> s.data, err |-> s.err]
      ELSE [b |-> s.b, val |-> << >>, err |-> s.err]

ReadString(b) ==
  LET s == ReadBytes(b, 0)
  IN  IF s.err = Nil
      THEN [b |-> s.b, val |-> SubSeq(s.data, 1, Len(s.data) - 1), err |-> s.err]
      ELSE [b |-> s.b, val |-> << >>, err |-> s.err]

WriteString(b, s) ==
  LET w == BufWrite(b, s)
  IN  IF w.err = Nil
      THEN IF w.n # Len(s) THEN [b |-> w.b, err |-> "mismatched lengths"]
           ELSE [b |-> BufWriteByte(w.b, 0).b, err |-> w.err]
      ELSE [b |-> w.b, err |-> w.err]

\* The buffer nb once the slice data, taken from the buffer b at its offset, is
\* in the hands of the caller
Returned(b, nb, data) ==
  [nb EXCEPT !.held = [orig |-> data, data |-> data, at |-> b.off, live |-> TRUE]]

\* A variant of ReadByteArray that returns all that follows the length
ReadByteArrayToEnd(b) ==
  LET l == ReadUint32(b)
  IN  IF l.err # Nil THEN [b |-> l.b, val |-> << >>, err |-> l.err]
      ELSE LET d == BufNext(l.b, BufLen(l.b))
           IN  [b |-> Returned(l.b, d.b, d.data), val |-> d.data, err |-> l.err]

ReadByteArray(b) ==
  LET l == ReadUint32(b)
  IN  IF l.err # Nil THEN [b |-> l.b, val |-> << >>, err |-> l.err]
      ELSE LET d == NextUint32(l.b, l.val)
           IN  [b |-> Returned(l.b, d.b, d.data), val |-> d.data, err |-> l.err]

WriteByteArrayNoLength(b, v) ==
  LET w == BufWrite(b, v) IN [b |-> w.b, err |-> Written(w, v)]

\* A variant of WriteByteArray that writes the length after the bytes
WriteByteArrayLengthLast(b, v) ==
  LET w == WriteByteArrayNoLength(b, v)
  IN  IF w.err # Nil THEN w ELSE WriteUint32(w.b, FromInt(Len(v)))

WriteByteArray(b, v) ==
  LET h == WriteUint32(b, FromInt(Len(v)))
  IN  IF h.err # Nil THEN h ELSE WriteByteArrayNoLength(h.b, v)

ReadByteArrayNoLength(b, l) ==
  LET d == BufNext(b, l)
  IN  IF Len(d.data) # l THEN [b |-> d.b, val |-> << >>, err |-> "read bytes but expected"]
      ELSE [b |-> Returned(b, d.b, d.data), val |-> d.data, err |-> Nil]

(***************************************************************************)
(* Arrays: a uint16 count, then the elements.                              *)
(***************************************************************************)
\* uint16(len(v))
Uint16OfLen(n) == n % 65536

\* The loop of WriteStrings over v[lo..hi], in order, stopping at the first
\* error (the range is halved only to keep the evaluation shallow).
RECURSIVE WriteStringsFrom(_, _, _, _)
WriteStringsFrom(b, v, lo, hi) ==
  IF lo > hi THEN [b |-> b, err |-> Nil]
  ELSE IF lo = hi THEN WriteString(b, v[lo])
  ELSE LET mid  == (lo + hi) \div 2
           left == WriteStringsFrom(b, v, lo, mid)
       IN  IF left.err # Nil THEN left
           ELSE WriteStringsFrom(left.b, v, mid + 1, hi)

WriteStrings(b, v) ==
  LET h == WriteUint16(b, Uint16OfLen(Len(v)))
  IN  IF h.err # Nil THEN h ELSE WriteStringsFrom(h.b, v, 1, Len(v))

\* The loop of ReadStrings: c elements still to read, v the ones read.
RECURSIVE ReadStringsFrom(_, _, _)
ReadStringsFrom(b, c, v) ==
  IF c = 0 THEN [b |-> b, val |-> v, err |-> Nil]
  ELSE LET e == ReadString(b)
       IN  IF e.err # Nil THEN [b |-> e.b, val |-> << >>, err |-> e.err]
           ELSE ReadStringsFrom(e.b, c - 1, Append(v, e.val))

ReadStrings(b) ==
  LET c == ReadUint16(b)
  IN  IF c.err # Nil THEN [b |-> c.b, val |-> << >>, err |-> c.err]
      ELSE ReadStringsFrom(c.b, c.val, << >>)

RECURSIVE WriteByteArrayArrayFrom(_, _, _, _)
WriteByteArrayArrayFrom(b, v, lo, hi) ==
  IF lo > hi THEN [b |-> b, err |-> Nil]
  ELSE IF lo = hi THEN WriteByteArray(b, v[lo])
  ELSE LET mid  == (lo + hi) \div 2
           left == WriteByteArrayArrayFrom(b, v, lo, mid)
       IN  IF left.err # Nil THEN left
           ELSE WriteByteArrayArrayFrom(left.b, v, mid + 1, hi)

WriteByteArrayArray(b, v) ==
  LET h == WriteUint16(b, Uint16OfLen(Len(v)))
  IN  IF h.err # Nil THEN h ELSE WriteByteArrayArrayFrom(h.b, v, 1, Len(v))

RECURSIVE WriteByteArrayArrayNoLengthFrom(_, _, _)
WriteByteArrayArrayNoLengthFrom(b, v, i) ==
  IF i > Len(v) THEN [b |-> b, err |-> Nil]
  ELSE LET w == WriteByteArrayNoLength(b, v[i])
       IN  IF w.err # Nil THEN w ELSE WriteByteArrayArrayNoLengthFrom(w.b, v, i + 1)

WriteByteArrayArrayNoLength(b, v) == WriteByteArrayArrayNoLengthFrom(b, v, 1)

RECURSIVE ReadByteArrayArrayFrom(_, _, _)
ReadByteArrayArrayFrom(b, c, v) ==
  IF c = 0 THEN [b |-> b, val |-> v, err |-> Nil]
  ELSE LET e == ReadByteArray(b)
       IN  IF e.err # Nil THEN [b |-> e.b, val |-> << >>, err |-> e.err]
           ELSE ReadByteArrayArrayFrom(e.b, c - 1, Append(v, e.val))

ReadByteArrayArray(b) ==
  LET c == ReadUint16(b)
  IN  IF c.err # Nil THEN [b |-> c.b, val |-> << >>, err |-> c.err]
      ELSE ReadByteArrayArrayFrom(c.b, c.val, << >>)

(***************************************************************************)
(* time.Time and time.Duration.  A Time is the signed count of             *)
(* nanoseconds from IoDateBase to the instant; a Duration is a signed      *)
(* count of nanoseconds that fits an int64.                                *)
(***************************************************************************)
Zero == SInt(FALSE, << >>)

\* time.Minute, time.Hour and one day as products of small factors
MinuteFactors == <<60, 1000, 1000, 1000>>

HourFactors == <<3600, 1000, 1000, 1000>>

Minute == Product(MinuteFactors)

Hour == Product(HourFactors)

Day == MulSmall(Hour, 24)

maxDuration == SInt(FALSE, Sub(Pow2(63), <<1>>))

minDuration == SInt(TRUE, Pow2(63))

\* The int64 that the low 64 bits of the natural number n stand for
Int64Of(n) ==
  LET u == Low(n, 64)
  IN  IF Less(u, Pow2(63)) THEN SInt(FALSE, u) ELSE SInt(TRUE, Sub(Pow2(64), u))

\* Duration(i) * k in int64 arithmetic (i a natural number, k > 0)
DurationMul(i, k) == Int64Of(Mul(i, k))

\* IoDateBase in seconds since January 1, year 1 00:00:00 UTC (the "sec"
\* of time.Time): 2020-01-01T00:00:00Z
IoDateBaseSec == Add(Mul(FromInt(63713), FromInt(1000000)), FromInt(433600))

SecondFactors == <<1000, 1000, 1000>>

\* time.Time{}: the zero Time, January 1, year 1
ZeroTime == SInt(TRUE, Mul(IoDateBaseSec, Product(SecondFactors)))

\* t.Sub(IoDateBase): the difference, or the nearest Duration when it does
\* not fit
TimeSub(t) ==
  IF SLess(maxDuration, t) THEN maxDuration
  ELSE IF SLess(t, minDuration) THEN minDuration
  ELSE t

\* IoDateBase.Add(d)
TimeAdd(d) == d

\* d.Minutes(): float64(d / Minute) + float64(d % Minute) / (60 * 1e9);
\* d.Hours() likewise.  The sign is kept apart: the division truncates
\* toward zero and the rounding is symmetric.
DurationUnits(d, fs) ==
  LET q    == DivFactors(d.mag, fs).q
      nsec == Sub(d.mag, Mul(q, Product(fs)))
      f    == FAdd(Float64(q), FDiv(Float64(nsec), fs))
  IN  [neg |-> d.neg /\ f.m # << >>, m |-> f.m, e |-> f.e]

Minutes(d) == DurationUnits(d, MinuteFactors)

Hours(d) == DurationUnits(d, HourFactors)

\* f / 24
FDiv24(f) ==
  LET q == FDiv(f, <<24>>) IN [neg |-> f.neg /\ q.m # << >>, m |-> q.m, e |-> q.e]

\* The conversion of float64 f to an unsigned integer of w bits: the
\* fraction is discarded; when the result does not fit, the value depends on
\* the implementation, which either keeps the low w bits of the (two's
\* complement) integer or saturates.
Impls == {"wrap", "saturate"}

ToUint(f, w, impl) ==
  LET n == FTrunc(f)
  IN  IF f.neg /\ n # << >>
      THEN IF impl = "wrap"
           THEN Low(Sub(Pow2(64), Low(n, 64)), w)
           ELSE << >>
      ELSE IF Less(n, Pow2(w)) THEN n
      ELSE IF impl = "wrap" THEN Low(n, w)
      ELSE Sub(Pow2(w), <<1>>)

GetDateInMinutes(t, impl) == ToUint(Minutes(TimeSub(t)), 32, impl)

GetDateFromMinutes(i) == TimeAdd(DurationMul(i, Minute))

ReadDateFromUInt32(b) ==
  LET i == ReadUint32(b)
  IN  IF i.err # Nil THEN [b |-> i.b, val |-> ZeroTime, err |-> i.err]
      ELSE [b |-> i.b, val |-> TimeAdd(DurationMul(i.val, Minute)), err |-> Nil]

WriteDateToUInt32(b, t, impl) == WriteUint32(b, GetDateInMinutes(t, impl))

ReadDate(b) ==
  LET d == ReadUint16(b)
  IN  IF d.err # Nil THEN [b |-> d.b, val |-> ZeroTime, err |-> d.err]
      ELSE [b |-> d.b,
            val |-> TimeAdd(Int64Of(MulSmall(DurationMul(FromInt(d.val), Hour).mag, 24))),
            err |-> Nil]

WriteDate(b, t, impl) ==
  WriteUint16(b, ToInt(ToUint(FDiv24(Hours(TimeSub(t))), 16, impl)))

(***************************************************************************)
(* time.Time.GobEncode / GobDecode (MarshalBinary / UnmarshalBinary) for   *)
(* UTC times: version, seconds since year 1 (8 bytes, big endian),         *)
(* nanoseconds (4 bytes), zone offset in minutes (2 bytes, -1 for UTC).    *)
(***************************************************************************)
timeBinaryVersionV1 == 1

timeBinaryVersionV2 == 2

BigEndianPut(v, n) == [i \in 1..n |-> ByteOf(v, n - i)]

RECURSIVE BigEndian(_)
BigEndian(d) ==
  IF d = << >> THEN << >>
  ELSE Add(MulSmall(BigEndian(SubSeq(d, 1, Len(d) - 1)), 256), FromInt(d[Len(d)]))

\* t.sec() and t.nsec() of the Time t
WallSec(t) ==
  LET q == DivFactors(t.mag, SecondFactors)
  IN  IF ~t.neg THEN SInt(FALSE, Add(IoDateBaseSec, q.q))
      ELSE SSub(SInt(FALSE, IoDateBaseSec),
                SInt(FALSE, IF q.exact THEN q.q ELSE Add(q.q, <<1>>)))

WallNsec(t) ==
  LET q == DivFactors(t.mag, SecondFactors)
      r == Sub(t.mag, Mul(q.q, Product(SecondFactors)))
  IN  IF ~t.neg \/ q.exact THEN r ELSE Sub(Product(SecondFactors), r)

\* The 64 bits of an int64
Uint64Of(x) == IF x.neg THEN Sub(Pow2(64), x.mag) ELSE x.mag

GobEncode(t) ==
  [data |-> <<timeBinaryVersionV1>> \o BigEndianPut(Uint64Of(WallSec(t)), 8)
              \o BigEndianPut(WallNsec(t), 4) \o <<255, 255>>,
   err  |-> Nil]

\* t.GobDecode(d) on the zero Time t: the decoded Time, or t unchanged and
\* an error
GobDecode(d) ==
  IF Len(d) = 0 THEN [t |-> ZeroTime, err |-> "Time.UnmarshalBinary: no data"]
  ELSE IF d[1] # timeBinaryVersionV1 /\ d[1] # timeBinaryVersionV2
  THEN [t |-> ZeroTime, err |-> "Time.UnmarshalBinary: unsupported version"]
  ELSE IF Len(d) # (IF d[1] = timeBinaryVersionV2 THEN 16 ELSE 15)
  THEN [t |-> ZeroTime, err |-> "Time.UnmarshalBinary: invalid length"]
  ELSE LET sec  == Int64Of(BigEndian(SubSeq(d, 2, 9)))
           nsec == BigEndian(SubSeq(d, 10, 13))
           rel  == SSub(sec, SInt(FALSE, IoDateBaseSec))
       IN  [t |-> SAdd(SInt(rel.neg, Mul(rel.mag, Product(SecondFactors))),
                       SInt(FALSE, nsec)),
            err |-> Nil]

ReadTime(b) ==
  LET d == ReadByteArray(b)
  IN  [b |-> [d.b EXCEPT !.held = b.held],
       val |-> IF d.err = Nil THEN GobDecode(d.val).t ELSE ZeroTime,
       err |-> d.err]

WriteTime(b, t) ==
  LET d == GobEncode(t)
  IN  IF d.err # Nil THEN [b |-> b, err |-> d.err] ELSE WriteByteArray(b, d.data)

(***************************************************************************)
(* Marshallers.  A BinaryMarshaler m is what its MarshalBinary returns,    *)
(* [data, err]; a BinaryUnmarshaler is the error uerr its UnmarshalBinary  *)
(* returns for the payload it is given.                                    *)
(***************************************************************************)
\* val is the sequence of the payloads handed to UnmarshalBinary: none or one
ReadMarshaller(b, uerr) ==
  LET v == ReadByteArray(b)
  IN  IF v.err # Nil THEN [b |-> v.b, val |-> << >>, err |-> v.err]
      ELSE [b |-> v.b, val |-> <<v.val>>, err |-> uerr]

\* A variant of WriteMarshaller that writes the payload without its length
WriteMarshallerNoLength(b, m) ==
  IF m.err # Nil THEN [b |-> b, err |-> m.err] ELSE WriteByteArrayNoLength(b, m.data)

WriteMarshaller(b, m) ==
  IF m.err # Nil THEN [b |-> b, err |-> m.err] ELSE WriteByteArray(b, m.data)

(***************************************************************************)
(* net/http.  A ResponseWriter is the net/http/httptest.ResponseRecorder   *)
(* the tests hand to the handlers: header is the map Header() returns,     *)
(* sent the copy of it made when the status was written, code the status,  *)
(* body the bytes written, good the number of calls of Write that still   *)
(* succeed (Always for the recorder, whose Write never fails; a writer to  *)
(* a connection fails once the connection is lost).  Header names and      *)
(* values are strings; the text                                            *)
(* of bodies, messages and log entries is the sequence of its bytes.  An   *)
(* error, like a request, is a sequence of none (nil) or one: its text.    *)
(***************************************************************************)
NoHeader == [k \in {} |-> ""]

NoError == << >>

Always == 0 - 1

NewRecorder ==
  [header |-> NoHeader, sent |-> NoHeader, code |-> 200, wroteHeader |-> FALSE,
   body |-> << >>, good |-> Always]

\* A writer whose connection is lost after k calls of Write
NewWriter(k) == [NewRecorder EXCEPT !.good = k]

\* The text of the error of a Write to a lost connection
WriteFailed == <<101, 111, 102>>

\* Header().Set(k, v)
HeaderSet(h, k, v) == [x \in DOMAIN h \cup {k} |-> IF x = k THEN v ELSE h[x]]

\* Header().Del(k)
HeaderDel(h, k) == [x \in DOMAIN h \ {k} |-> h[x]]

\* Header().Get(k)
HeaderGet(h, k) == IF k \in DOMAIN h THEN h[k] ELSE ""

\* w.WriteHeader(code), code a status from 100 to 999: the first call counts
WriteHeader(w, code) ==
  IF w.wroteHeader THEN w
  ELSE [w EXCEPT !.sent = w.header, !.code = code, !.wroteHeader = TRUE]

\* The bytes that make data binary to http.DetectContentType
BinaryBytes == (0..8) \cup {11} \cup (14..26) \cup (28..31)

\* http.DetectContentType(data), for data that starts with none of the
\* signatures it knows
DetectContentType(data) ==
  IF \E i \in 1..Len(data) : data[i] \in BinaryBytes THEN "application/octet-stream"
  ELSE "text/plain; charset=utf-8"

\* w.Write(p): the status is written as 200 if it was not written yet, with
\* a Content-Type found from p if none was set; the bytes are added to the
\* body unless the write fails
RecWrite(w, p) ==
  LET typed == "Content-Type" \in DOMAIN w.header
                 \/ HeaderGet(w.header, "Transfer-Encoding") # ""
      h == IF w.wroteHeader THEN w
           ELSE WriteHeader([w EXCEPT !.header =
                               IF typed THEN @
                               ELSE HeaderSet(@, "Content-Type", DetectContentType(p))],
                            200)
  IN  IF w.good = 0 THEN [w |-> h, n |-> 0, err |-> <<WriteFailed>>]
      ELSE [w |-> [h EXCEPT !.body = @ \o p,
                            !.good = IF @ = Always THEN @ ELSE @ - 1],
            n |-> Len(p), err |-> NoError]

\* A variant of http.Error that writes the text before the status
ErrorAfterBody(w, msg, code, strip) ==
  WriteHeader(RecWrite(w, msg \o <<10>>).w, code)

\* http.Error(w, msg, code).  The builds differ: since Go 1.23 it also
\* deletes the Content-Encoding, Etag and Last-Modified headers (strip).
Error(w, msg, code, strip) ==
  LET h1 == HeaderDel(w.header, "Content-Length")
      h2 == IF strip
            THEN HeaderDel(HeaderDel(HeaderDel(h1, "Content-Encoding"), "Etag"),
                           "Last-Modified")
            ELSE h1
      h3 == HeaderSet(h2, "Content-Type", "text/plain; charset=utf-8")
      h4 == HeaderSet(h3, "X-Content-Type-Options", "nosniff")
  IN  RecWrite(WriteHeader([w EXCEPT !.header = h4], code), msg \o <<10>>).w

\* "Internal server error"
serverErrorMessage ==
  <<73, 110, 116, 101, 114, 110, 97, 108, 32, 115, 101, 114, 118, 101, 114, 32,
    101, 114, 114, 111, 114>>

\* http.StatusInternalServerError
StatusInternalServerError == 500

\* strconv.Itoa(n), n >= 0
RECURSIVE Itoa(_)
Itoa(n) == IF n < 10 THEN <<48 + n>> ELSE Itoa(n \div 10) \o <<48 + (n % 10)>>

\* err.logError(): the entries handed to log.Print, none when Log is false
logError(err) ==
  IF err.Log
  THEN << <<72, 84, 84, 80, 32, 69, 114, 114, 111, 114, 10>>
            \o <<9, 77, 101, 115, 115, 97, 103, 101, 58, 32>> \o err.Message \o <<10>>
            \o <<9, 67, 111, 100, 101, 32, 32, 32, 58, 32>> \o Itoa(err.Code) \o <<10>>
            \o (IF err.Error # NoError
                THEN <<9, 69, 114, 114, 111, 114, 32, 32, 58, 32>> \o err.Error[1]
                       \o <<10>>
                ELSE << >>)
            \o (IF err.Request # << >>
                THEN <<9, 77, 101, 116, 104, 111, 100, 32, 58, 32>> \o err.Request[1].Method \o <<10>>
                       \o <<9, 85, 82, 76, 32, 32, 32, 32, 58, 32>> \o err.Request[1].URL \o <<10>>
                ELSE << >>) >>
  ELSE << >>

\* The response w and the log entries of a handler
ReturnError(w, err, strip) ==
  LET h1 == HeaderSet(w.header, "Cache-Control", "no-cache")
      h2 == HeaderSet(h1, "Content-Type", "text/plain; charset=utf-8")
  IN  [w |-> Error([w EXCEPT !.header = h2], err.Message, err.Code, strip),
       log |-> logError(err)]

ReturnApplicationError(w, err, strip) == ReturnError(w, err, strip)

\* A variant of ReturnServerError that tells the client what the error was
ReturnServerErrorInDetail(w, err, strip) ==
  ReturnError(w, [Request |-> << >>, Log |-> TRUE,
                  Message |-> IF err = NoError THEN serverErrorMessage
                              ELSE serverErrorMessage \o <<58, 32>> \o err[1],
                  Code |-> StatusInternalServerError, Error |-> err], strip)

ReturnServerError(w, err, strip) ==
  ReturnError(w, [Request |-> << >>, Log |-> TRUE, Message |-> serverErrorMessage,
                  Code |-> StatusInternalServerError, Error |-> err], strip)

(***************************************************************************)
(* compress/gzip.  A gzip.Writer writes the ten bytes of its header to the *)
(* ResponseWriter at the first Write, keeps the data in its compressor,    *)
(* and at Close writes the deflate stream and then the CRC-32 and the      *)
(* length of the data.  The deflate stream is written as one stored block: *)
(* the blocks a build chooses differ, what inflating them returns does     *)
(* not.                                                                    *)
(***************************************************************************)
\* crc32.IEEE, 0xedb88320, from bit 0
IEEE ==
  <<0, 0, 0, 0, 0, 1, 0, 0, 1, 1, 0, 0, 0, 0, 0, 1,
    0, 0, 0, 1, 1, 1, 0, 1, 1, 0, 1, 1, 0, 1, 1, 1>>

Xor32(a, b) == [i \in 1..32 |-> (a[i] + b[i]) % 2]

ShiftRight32(a) == [i \in 1..32 |-> IF i < 32 THEN a[i + 1] ELSE 0]

Ones32 == [i \in 1..32 |-> 1]

\* The k steps of the table-less CRC for one byte xored in
RECURSIVE CrcSteps(_, _)
CrcSteps(c, k) ==
  IF k = 0 THEN c
  ELSE CrcSteps(IF c[1] = 1 THEN Xor32(ShiftRight32(c), IEEE) ELSE ShiftRight32(c),
                k - 1)

RECURSIVE CrcUpdate(_, _)
CrcUpdate(c, data) ==
  IF data = << >> THEN c
  ELSE CrcUpdate(CrcSteps(Xor32(c, [i \in 1..32 |->
                                      IF i <= 8 THEN (Head(data) \div (2 ^ (i - 1))) % 2
                                      ELSE 0]), 8),
                 Tail(data))

\* crc32.ChecksumIEEE(data), as the four bytes of the trailer
ChecksumIEEE(data) ==
  LET c == Xor32(CrcUpdate(Ones32, data), Ones32)
      Bit(k, i) == c[8 * k + i + 1] * (2 ^ i)
  IN  [k \in 1..4 |-> Bit(k - 1, 0) + Bit(k - 1, 1) + Bit(k - 1, 2) + Bit(k - 1, 3)
                        + Bit(k - 1, 4) + Bit(k - 1, 5) + Bit(k - 1, 6) + Bit(k - 1, 7)]

\* ID1 ID2, deflate, no flags, no time, no extra flags, OS unknown
GzipHeader == <<31, 139, 8, 0, 0, 0, 0, 0, 0, 255>>

\* One final stored block of less than 2^16 bytes
Deflate(data) ==
  <<1, Len(data) % 256, Len(data) \div 256,
    255 - (Len(data) % 256), 255 - (Len(data) \div 256)>> \o data

\* The trailer: CRC-32, then the length, each in four bytes from the lowest
GzipTrailer(data) ==
  ChecksumIEEE(data) \o <<Len(data) % 256, Len(data) \div 256, 0, 0>>

\* gzip.NewWriter(w)
NewGzipWriter ==
  [wroteHeader |-> FALSE, data |-> << >>, closed |-> FALSE, err |-> NoError]

\* g.Write(p) on the ResponseWriter w
GzipWrite(w, g, p) ==
  IF g.err # NoError THEN [w |-> w, g |-> g, n |-> 0, err |-> g.err]
  ELSE LET h == IF g.wroteHeader THEN [w |-> w, n |-> 0, err |-> NoError]
                ELSE RecWrite(w, GzipHeader)
       IN  IF h.err # NoError
           THEN [w |-> h.w, g |-> [g EXCEPT !.wroteHeader = TRUE, !.err = h.err],
                 n |-> h.n, err |-> h.err]
           ELSE [w |-> h.w,
                 g |-> [g EXCEPT !.wroteHeader = TRUE, !.data = @ \o p],
                 n |-> Len(p), err |-> NoError]

\* A variant of g.Close() that leaves out the trailer
GzipCloseNoTrailer(w, g) ==
  IF g.err # NoError \/ g.closed THEN w
  ELSE RecWrite(GzipWrite(w, g, << >>).w, Deflate(g.data)).w

\* g.Close() on the ResponseWriter w: the response once g is closed
GzipClose(w, g) ==
  IF g.err # NoError \/ g.closed THEN w
  ELSE LET h == GzipWrite(w, g, << >>)
       IN  IF h.err # NoError THEN h.w
           ELSE LET d == RecWrite(h.w, Deflate(g.data))
                IN  IF d.err # NoError THEN d.w
                    ELSE RecWrite(d.w, GzipTrailer(g.data)).w

\* gzip.NewReader(body) and io.ReadAll of it: the data of a stream of one
\* member with no flags and one stored block, an error for anything else
Gunzip(body) ==
  LET n == IF Len(body) >= 13 THEN body[12] + 256 * body[13] ELSE 0
      data == SubSeq(body, 16, 15 + n)
  IN  IF /\ Len(body) = 23 + n
         /\ SubSeq(body, 1, 4) = <<31, 139, 8, 0>>
         /\ SubSeq(body, 11, 15) = SubSeq(Deflate(data), 1, 5)
         /\ SubSeq(body, 16 + n, 23 + n) = GzipTrailer(data)
      THEN [data |-> data, err |-> Nil]
      ELSE [data |-> << >>, err |-> "gzip: invalid stream"]

GetWriter(w, contentType) ==
  [g |-> NewGzipWriter,
   w |-> [w EXCEPT !.header = HeaderSet(HeaderSet(@, "Content-Encoding", "gzip"),
                                        "Content-Type", contentType)]]

\* temp.Execute(g, model) for a template t = [out, err]: out the pieces it
\* writes, in order, before it ends, err the error it ends with, if any.  A
\* template that fails while it is parsed for escaping has written nothing;
\* one that fails while it is executed has written what came before.
RECURSIVE ExecuteFrom(_, _, _)
ExecuteFrom(w, g, out) ==
  IF out = << >> THEN [w |-> w, g |-> g, err |-> NoError]
  ELSE LET x == GzipWrite(w, g, Head(out))
       IN  IF x.err # NoError THEN [w |-> x.w, g |-> x.g, err |-> x.err]
           ELSE ExecuteFrom(x.w, x.g, Tail(out))

Execute(w, g, t) ==
  LET x == ExecuteFrom(w, g, t.out)
  IN  IF x.err # NoError THEN x ELSE [x EXCEPT !.err = t.err]

\* SendTemplate(writer, temp, contentType, model): the response and the log
\* entries.  The deferred g.Close() runs last.
SendTemplate(writer, temp, contentType, strip) ==
  LET gw == GetWriter(writer, contentType)
      x  == Execute(gw.w, gw.g, temp)
      e  == IF x.err # NoError THEN ReturnServerError(x.w, x.err, strip)
            ELSE [w |-> x.w, log |-> << >>]
  IN  [w |-> GzipClose(e.w, x.g), log |-> e.log]

SendHTMLTemplate(writer, temp, strip) ==
  SendTemplate([writer EXCEPT !.header = HeaderSet(@, "Cache-Control", "no-cache")],
               temp, "text/html; charset=utf-8", strip)

SendJSTemplate(writer, temp, strip) ==
  SendTemplate(writer, temp, "application/javascript; charset=utf-8", strip)

\* The text of fmt.Errorf("byte count mismatch")
ByteCountMismatch ==
  <<98, 121, 116, 101, 32, 99, 111, 117, 110, 116, 32, 109, 105, 115, 109, 97, 116,
    99, 104>>

\* SendResponse(writer, contentType, data, compress): the response and the
\* log entries.  The deferred g.Close() runs last on the compressed path.
SendResponse(writer, contentType, data, compress, strip) ==
  LET w0 == [writer EXCEPT !.header = HeaderSet(@, "Access-Control-Allow-Origin", "*")]
      gw == GetWriter(w0, contentType)
      r  == IF compress THEN GzipWrite(gw.w, gw.g, data)
            ELSE LET p == RecWrite(w0, data)
                 IN  [w |-> p.w, g |-> NewGzipWriter, n |-> p.n, err |-> p.err]
      Closed(w) == IF compress THEN GzipClose(w, r.g) ELSE w
      e  == IF r.err # NoError THEN ReturnServerError(r.w, r.err, strip)
            ELSE IF r.n # Len(data)
            THEN ReturnServerError(r.w, <<ByteCountMismatch>>, strip)
            ELSE [w |-> r.w, log |-> << >>]
  IN  [w |-> Closed(e.w), log |-> e.log]

SendJS(writer, data, strip) ==
  SendResponse(writer, "application/javascript; charset=utf-8", data, TRUE, strip)

SendByteArray(writer, data, strip) ==
  SendResponse(writer, "application/octet-stream", data, TRUE, strip)

SendByteArrayUncompressed(writer, data, strip) ==
  SendResponse(writer, "application/octet-stream", data, FALSE, strip)

\* []byte(value) is the bytes of the string
SendString(writer, value, strip) ==
  SendResponse(writer, "text/plain", value, TRUE, strip)

\* ResponseAsByteArrayTest(t, rr): the body with the Content-Encoding of
\* rr.Header() undone; err where the test is failed with t.Fatal
ResponseAsByteArrayTest(rr) ==
  LET e == HeaderGet(rr.header, "Content-Encoding")
  IN  IF e = "" THEN [data |-> rr.body, err |-> Nil]
      ELSE IF e = "gzip" THEN Gunzip(rr.body)
      ELSE [data |-> << >>, err |-> "content type unsupported"]

(***************************************************************************)
(* The inputs the operations are exercised with.                           *)
(***************************************************************************)
MaxFields == 1

MaxStrLen == 2

MaxBlobLen == 2

MaxArrayLen == 2

MaxInitLen == 6

MaxPayloadLen == 2

MaxGood == 1

MaxOps == 3

MaxUint16 == 2^16 - 1

MaxUint32 == Sub(Pow2(32), <<1>>)

SeqsUpTo(S, n) == UNION {[1..k -> S] : k \in 0..n}

Uint16Vals == {0, 258, MaxUint16}

Uint32Vals == {<< >>, LittleEndianUint32(<<4, 3, 2, 1>>), Pow2(31), MaxUint32}

ByteVals == 0..255

\* +0, -0, 1.0, a NaN with a payload, the largest negative number
Float32Vals ==
  {[sign |-> 0, exp |-> 0, frac |-> 0], [sign |-> 1, exp |-> 0, frac |-> 0],
   [sign |-> 0, exp |-> 127, frac |-> 0], [sign |-> 0, exp |-> 255, frac |-> 1],
   [sign |-> 1, exp |-> 254, frac |-> 2^23 - 1]}

\* Strings have no zero byte
StringVals == SeqsUpTo({97, 98}, MaxStrLen)

BlobVals == SeqsUpTo({0, 7}, MaxBlobLen)

StringArrays == SeqsUpTo({<< >>, <<97>>}, MaxArrayLen)

BlobArrays == SeqsUpTo({<< >>, <<0>>}, MaxArrayLen)

\* An array one longer than a uint16 counts
LongStrings == [i \in 1..(MaxUint16 + 1) |-> << >>]

After(n, unit) == SInt(FALSE, Mul(n, unit))

Before(t, d) == SSub(t, SInt(FALSE, d))

Nanosecond == <<1>>

TimeVals == {Zero, After(<<15>>, FromInt(100000000))}

\* The base, 90 minutes and 90 seconds after it, a nanosecond short of a
\* whole number of minutes, the last minute a uint32 counts and the one after
\* it, an instant further from the base than a Duration reaches, and
\* instants before the base.
MinuteDates ==
  {Zero, After(<<90>>, Minute), After(<<90>>, FromInt(1000000000)),
   Before(After(FromInt(527040), Minute), Nanosecond),
   After(MaxUint32, Minute), After(Pow2(32), Minute),
   After(FromInt(2000000000), Minute),
   Before(Zero, Nanosecond), Before(Zero, Minute)}

\* Likewise in days
DayDates ==
  {Zero, After(<<3>>, Day), Before(After(<<3>>, Day), Nanosecond),
   After(<<3>>, Hour), Before(After(FromInt(40000), Day), Nanosecond),
   After(FromInt(MaxUint16), Day),
   After(FromInt(MaxUint16 + 1), Day), Before(Zero, Day)}

Marshallers ==
  {[data |-> d, err |-> Nil] : d \in {<< >>, <<7>>}}
    \cup {[data |-> << >>, err |-> "marshal failed"]}

UnmarshalErrors == {Nil, "unmarshal failed"}

\* The payloads the handlers send: text and binary, the empty one included
Payloads == SeqsUpTo({0, 10, 65}, MaxPayloadLen)

\* "", "A", and the message of a server error
Messages == {<< >>, <<65>>, serverErrorMessage}

\* No error, errors.New("A"), errors.New("B")
Errors == {NoError, << <<65>> >>, << <<66>> >>}

\* No request, and GET /test
Requests ==
  {<< >>, <<[Method |-> <<71, 69, 84>>, URL |-> <<47, 116, 101, 115, 116>>]>>}

\* http.StatusBadRequest, http.StatusNotFound, http.StatusServiceUnavailable
Codes == {400, 404, 503}

\* Templates that write nothing or "A", and then end or fail with "B"
Templates ==
  {[out |-> o, err |-> e] : o \in {<< >>, << <<65>> >>}, e \in {NoError, << <<66>> >>}}

\* The recorder, and writers that lose the connection before the first
\* Write and after it
Writers == {NewRecorder} \cup {NewWriter(k) : k \in 0..MaxGood}

\* The buffers a decoder is handed
InitBuffers == {NewBuffer(d) : d \in SeqsUpTo({0, 1}, MaxInitLen)}

(***************************************************************************)
(* The state keeps a long sequence (the bytes of a buffer, an array) as    *)
(* the sequence of its pages of PageSize elements; the operations work on  *)
(* the sequence itself.                                                    *)
(***************************************************************************)
PageSize == 2^8

Pages(s) ==
  [i \in 1..((Len(s) + PageSize - 1) \div PageSize) |->
     SubSeq(s, (i - 1) * PageSize + 1, Min2(i * PageSize, Len(s)))]

RECURSIVE UnpagedFrom(_, _, _)
UnpagedFrom(p, lo, hi) ==
  IF lo > hi THEN << >>
  ELSE IF lo = hi THEN p[lo]
  ELSE LET mid == (lo + hi) \div 2
       IN  UnpagedFrom(p, lo, mid) \o UnpagedFrom(p, mid + 1, hi)

Unpaged(p) == UnpagedFrom(p, 1, Len(p))

Stored(b) == [b EXCEPT !.buf = Pages(@)]

Loaded(b) == [b EXCEPT !.buf = Unpaged(@)]

\* The buffer, and the buffer the last operation found
Buf == Loaded(buffer)

Pre == Loaded(res.pre)

(***************************************************************************)
(* The state machine.  buffer is the bytes.Buffer the operations share,    *)
(* res the record of the last operation (what it was given, the buffer it  *)
(* found, what it returned), fields the fields written without error and   *)
(* not yet read, nops the number of operations counted against the bound  *)
(* of the mode.  In a "session" a writer fills a new buffer and a reader   *)
(* reads the fields back with the matching operations in order; in         *)
(* "decode" a reader is handed arbitrary bytes; in a "stream" a writer and *)
(* a reader share the buffer and any operation may follow any other.       *)
(***************************************************************************)
NoResult ==
  [op |-> "none", arg |-> << >>, pre |-> ZeroBuffer, val |-> << >>,
   err |-> Nil, exp |-> << >>, aligned |-> FALSE]

Init ==
  /\ buffer = Stored(ZeroBuffer)
  /\ res = NoResult
  /\ fields = << >>
  /\ nops = 0
  /\ mode = "session"

\* A stream starts on a new buffer or on one made of two bytes
InitStream ==
  /\ buffer \in {Stored(ZeroBuffer), Stored(NewBuffer(<<1, 0>>))}
  /\ res = NoResult
  /\ fields = << >>
  /\ nops = 0
  /\ mode = "stream"

InitDecode ==
  /\ buffer \in {Stored(b) : b \in InitBuffers}
  /\ res = NoResult
  /\ fields = << >>
  /\ nops = 0
  /\ mode = "decode"

\* In a stream a writer and a reader share the buffer and any operation may
\* follow any other; the writer takes its values from narrower sets
Inputs(wide, narrow) == IF mode = "stream" THEN narrow ELSE wide

Writable ==
  mode # "decode" /\ nops < (IF mode = "stream" THEN MaxOps ELSE MaxFields)

\* The kinds of field each read is the reader of: a bool is also read where
\* any byte was written
KindsRead ==
  [op \in {"ReadByte", "ReadUint16", "ReadUint32", "ReadFloat32", "ReadString",
           "ReadByteArray", "ReadStrings", "ReadByteArrayArray", "ReadTime",
           "ReadDate", "ReadMarshaller"} |-> {SubSeq(op, 5, Len(op))}]
    @@ [op \in {"ReadBool"} |-> {"Bool", "Byte"}]
    @@ [op \in {"ReadDateFromUInt32"} |-> {"DateUInt32"}]
    @@ [op \in {"ReadByteArrayNoLength"} |-> {"Raw"}]

\* The read op is the read of the oldest field due
Matched(op) == fields # << >> /\ Head(fields).kind \in KindsRead[op]

Readable(op) ==
  \/ mode = "decode"
  \/ mode = "stream" /\ nops < MaxOps
  \/ mode = "session" /\ Matched(op)

RECURSIVE TotalSize(_)
TotalSize(fs) == IF fs = << >> THEN 0 ELSE Head(fs).size + TotalSize(Tail(fs))

\* A write r of the value v: a field is due to the reader when it succeeded
DoWrite(op, kind, v, r) ==
  /\ buffer' = Stored(r.b)
  /\ res' = [op |-> op, arg |-> v, pre |-> buffer, val |-> << >>,
             err |-> r.err, exp |-> << >>, aligned |-> FALSE]
  /\ fields' = IF r.err = Nil
               THEN Append(fields, [kind |-> kind, v |-> v,
                                    size |-> BufLen(r.b) - BufLen(Buf)])
               ELSE fields
  /\ nops' = nops + 1
  /\ UNCHANGED mode

\* A read r.  It is the read of the oldest field due when it is one of the
\* reads of that kind of field (and asks for the bytes that were written, if
\* it is told how many to read), and it is aligned when the unread bytes are
\* exactly the fields due.  A read of anything else leaves no field due.
DoRead(op, arg, r) ==
  LET hit == /\ mode # "decode"
             /\ Matched(op)
             /\ op = "ReadByteArrayNoLength" => arg = Len(Head(fields).v)
  IN  /\ buffer' = Stored(r.b)
      /\ res' = [op |-> op, arg |-> arg, pre |-> buffer, val |-> r.val,
                 err |-> r.err,
                 exp |-> IF hit THEN <<Head(fields)>> ELSE << >>,
                 aligned |-> hit /\ BufLen(Buf) = TotalSize(fields)]
      /\ fields' = IF hit THEN Tail(fields) ELSE << >>
      /\ nops' = IF mode = "stream" THEN nops + 1 ELSE nops
      /\ UNCHANGED mode

DoWriteByte ==
  /\ Writable
  /\ \E i \in Inputs(ByteVals, {7}) : DoWrite("WriteByte", "Byte", i, WriteByte(Buf, i))

DoWriteBool ==
  /\ Writable
  /\ \E v \in Inputs(BOOLEAN, {TRUE}) : DoWrite("WriteBool", "Bool", v, WriteBool(Buf, v))

DoWriteUint16 ==
  /\ Writable
  /\ \E i \in Inputs(Uint16Vals, {258}) : DoWrite("WriteUint16", "Uint16", i, WriteUint16(Buf, i))

DoWriteUint32 ==
  /\ Writable
  /\ \E i \in Inputs(Uint32Vals, {Pow2(31)}) : DoWrite("WriteUint32", "Uint32", i, WriteUint32(Buf, i))

DoWriteFloat32 ==
  /\ Writable
  /\ \E f \in Inputs(Float32Vals, {[sign |-> 1, exp |-> 0, frac |-> 0]}) : DoWrite("WriteFloat32", "Float32", f, WriteFloat32(Buf, f))

DoWriteString ==
  /\ Writable
  /\ \E s \in Inputs(StringVals, {<<97>>}) : DoWrite("WriteString", "String", s, WriteString(Buf, s))

DoWriteByteArray ==
  /\ Writable
  /\ \E v \in Inputs(BlobVals, {<< >>, <<0, 7>>}) :
       DoWrite("WriteByteArray", "ByteArray", v, WriteByteArray(Buf, v))

DoWriteByteArrayNoLength ==
  /\ Writable
  /\ \E v \in Inputs(BlobVals, {<<0, 7>>}) :
       DoWrite("WriteByteArrayNoLength", "Raw", v, WriteByteArrayNoLength(Buf, v))

\* The long array is written to a new buffer only
DoWriteStrings ==
  /\ Writable
  /\ \E v \in Inputs(StringArrays \cup (IF Buf = ZeroBuffer THEN {LongStrings} ELSE {}),
                  {<< >>, << << >>, <<97>> >>}) :
       DoWrite("WriteStrings", "Strings", Pages(v), WriteStrings(Buf, v))

DoWriteByteArrayArray ==
  /\ Writable
  /\ \E v \in Inputs(BlobArrays, {<< <<0>>, << >> >>}) :
       DoWrite("WriteByteArrayArray", "ByteArrayArray", Pages(v),
               WriteByteArrayArray(Buf, v))

RECURSIVE Concat(_)
Concat(v) == IF v = << >> THEN << >> ELSE Head(v) \o Concat(Tail(v))

\* The reader of such a field reads the bytes of all the elements at once
DoWriteByteArrayArrayNoLength ==
  /\ Writable
  /\ \E v \in Inputs(BlobArrays, {<< <<0>> >>}) :
       DoWrite("WriteByteArrayArrayNoLength", "Raw", Concat(v),
               WriteByteArrayArrayNoLength(Buf, v))

DoWriteTime ==
  /\ Writable
  /\ \E t \in Inputs(TimeVals, {Zero}) : DoWrite("WriteTime", "Time", t, WriteTime(Buf, t))

DoWriteDate ==
  /\ Writable
  /\ \E t \in Inputs(DayDates, {After(<<3>>, Day)}), impl \in Inputs(Impls, {"wrap"}) :
       DoWrite("WriteDate", "Date", [t |-> t, impl |-> impl], WriteDate(Buf, t, impl))

DoWriteDateToUInt32 ==
  /\ Writable
  /\ \E t \in Inputs(MinuteDates, {After(<<90>>, Minute)}),
        impl \in Inputs(Impls, {"wrap"}) :
       DoWrite("WriteDateToUInt32", "DateUInt32", [t |-> t, impl |-> impl],
               WriteDateToUInt32(Buf, t, impl))

DoWriteMarshaller ==
  /\ Writable
  /\ \E m \in Inputs(Marshallers, {[data |-> <<7>>, err |-> Nil],
                                   [data |-> << >>, err |-> "marshal failed"]}) :
       DoWrite("WriteMarshaller", "Marshaller", m, WriteMarshaller(Buf, m))

DoReadByte ==
  /\ Readable("ReadByte")
  /\ DoRead("ReadByte", << >>, ReadByte(Buf))

DoReadBool ==
  /\ Readable("ReadBool")
  /\ DoRead("ReadBool", << >>, ReadBool(Buf))

DoReadUint16 ==
  /\ Readable("ReadUint16")
  /\ DoRead("ReadUint16", << >>, ReadUint16(Buf))

DoReadUint32 ==
  /\ Readable("ReadUint32")
  /\ DoRead("ReadUint32", << >>, ReadUint32(Buf))

DoReadFloat32 ==
  /\ Readable("ReadFloat32")
  /\ DoRead("ReadFloat32", << >>, ReadFloat32(Buf))

DoReadString ==
  /\ Readable("ReadString")
  /\ DoRead("ReadString", << >>, ReadString(Buf))

DoReadByteArray ==
  /\ Readable("ReadByteArray")
  /\ DoRead("ReadByteArray", << >>, ReadByteArray(Buf))

\* The caller knows the length of the field: in a session the length that
\* was written
DoReadByteArrayNoLength ==
  /\ Readable("ReadByteArrayNoLength")
  /\ \E l \in (IF mode = "session" THEN {Len(Head(fields).v)} ELSE 0..MaxBlobLen) :
       DoRead("ReadByteArrayNoLength", l, ReadByteArrayNoLength(Buf, l))

DoReadStrings ==
  /\ Readable("ReadStrings")
  /\ DoRead("ReadStrings", << >>, [ReadStrings(Buf) EXCEPT !.val = Pages(@)])

DoReadByteArrayArray ==
  /\ Readable("ReadByteArrayArray")
  /\ DoRead("ReadByteArrayArray", << >>,
            [ReadByteArrayArray(Buf) EXCEPT !.val = Pages(@)])

DoReadTime ==
  /\ Readable("ReadTime")
  /\ DoRead("ReadTime", << >>, ReadTime(Buf))

DoReadDate ==
  /\ Readable("ReadDate")
  /\ DoRead("ReadDate", << >>, ReadDate(Buf))

DoReadDateFromUInt32 ==
  /\ Readable("ReadDateFromUInt32")
  /\ DoRead("ReadDateFromUInt32", << >>, ReadDateFromUInt32(Buf))

DoReadMarshaller ==
  /\ Readable("ReadMarshaller")
  /\ \E uerr \in Inputs(UnmarshalErrors, {Nil}) :
       DoRead("ReadMarshaller", uerr, ReadMarshaller(Buf, uerr))

Writes ==
  \/ DoWriteByte
  \/ DoWriteBool
  \/ DoWriteUint16
  \/ DoWriteUint32
  \/ DoWriteFloat32
  \/ DoWriteString
  \/ DoWriteByteArray
  \/ DoWriteByteArrayNoLength
  \/ DoWriteStrings
  \/ DoWriteByteArrayArray
  \/ DoWriteByteArrayArrayNoLength
  \/ DoWriteTime
  \/ DoWriteDate
  \/ DoWriteDateToUInt32
  \/ DoWriteMarshaller

Reads ==
  \/ DoReadByte
  \/ DoReadBool
  \/ DoReadUint16
  \/ DoReadUint32
  \/ DoReadFloat32
  \/ DoReadString
  \/ DoReadByteArray
  \/ DoReadByteArrayNoLength
  \/ DoReadStrings
  \/ DoReadByteArrayArray
  \/ DoReadTime
  \/ DoReadDate
  \/ DoReadDateFromUInt32
  \/ DoReadMarshaller

Next == Writes \/ Reads

NextDecode == Reads

Spec == Init /\ [][Next]_vars

SpecDecode == InitDecode /\ [][NextDecode]_vars

\* The operations of a stream: the scalars, strings, byte arrays and arrays
NextStream ==
  \/ DoWriteByte
  \/ DoWriteBool
  \/ DoWriteUint16
  \/ DoWriteUint32
  \/ DoWriteString
  \/ DoWriteByteArray
  \/ DoWriteByteArrayNoLength
  \/ DoWriteStrings
  \/ DoWriteByteArrayArray
  \/ DoWriteMarshaller
  \/ DoReadByte
  \/ DoReadBool
  \/ DoReadUint16
  \/ DoReadUint32
  \/ DoReadString
  \/ DoReadByteArray
  \/ DoReadByteArrayNoLength
  \/ DoReadStrings
  \/ DoReadByteArrayArray
  \/ DoReadMarshaller

SpecStream == InitStream /\ [][NextStream]_vars

\* A handler is given the recorder of a new request
InitHttp ==
  /\ buffer = Stored(ZeroBuffer)
  /\ res = NoResult
  /\ fields = << >>
  /\ nops = 0
  /\ mode = "http"

\* A handler answers a request once
Serving == mode = "http" /\ res.op = "none"

\* The handler op answered the request with the response and log entries r
DoHandler(op, arg, r) ==
  /\ res' = [op |-> op, arg |-> arg, pre |-> buffer, val |-> r, err |-> Nil,
             exp |-> << >>, aligned |-> FALSE]
  /\ UNCHANGED <<buffer, fields, nops, mode>>

DoReturnServerError ==
  /\ Serving
  /\ \E e \in Errors, strip \in BOOLEAN :
       DoHandler("ReturnServerError", [err |-> e, strip |-> strip],
                 ReturnServerError(NewRecorder, e, strip))

DoReturnApplicationError ==
  /\ Serving
  /\ \E l \in BOOLEAN, m \in Messages, c \in Codes, e \in Errors, rq \in Requests,
        strip \in BOOLEAN :
       LET err == [Request |-> rq, Log |-> l, Message |-> m, Code |-> c, Error |-> e]
       IN  DoHandler("ReturnApplicationError", [err |-> err, strip |-> strip],
                     ReturnApplicationError(NewRecorder, err, strip))

DoSendString ==
  /\ Serving
  /\ \E w \in Writers, d \in Payloads, strip \in BOOLEAN :
       DoHandler("SendString", [writer |-> w, data |-> d, strip |-> strip],
                 SendString(w, d, strip))

DoSendJS ==
  /\ Serving
  /\ \E w \in Writers, d \in Payloads, strip \in BOOLEAN :
       DoHandler("SendJS", [writer |-> w, data |-> d, strip |-> strip],
                 SendJS(w, d, strip))

DoSendByteArray ==
  /\ Serving
  /\ \E w \in Writers, d \in Payloads, strip \in BOOLEAN :
       DoHandler("SendByteArray", [writer |-> w, data |-> d, strip |-> strip],
                 SendByteArray(w, d, strip))

DoSendByteArrayUncompressed ==
  /\ Serving
  /\ \E w \in Writers, d \in Payloads, strip \in BOOLEAN :
       DoHandler("SendByteArrayUncompressed", [writer |-> w, data |-> d, strip |-> strip],
                 SendByteArrayUncompressed(w, d, strip))

DoSendTemplate ==
  /\ Serving
  /\ \E w \in Writers, t \in Templates, strip \in BOOLEAN :
       DoHandler("SendTemplate", [writer |-> w, temp |-> t, strip |-> strip],
                 SendTemplate(w, t, "text/plain", strip))

DoSendHTMLTemplate ==
  /\ Serving
  /\ \E w \in Writers, t \in Templates, strip \in BOOLEAN :
       DoHandler("SendHTMLTemplate", [writer |-> w, temp |-> t, strip |-> strip],
                 SendHTMLTemplate(w, t, strip))

DoSendJSTemplate ==
  /\ Serving
  /\ \E w \in Writers, t \in Templates, strip \in BOOLEAN :
       DoHandler("SendJSTemplate", [writer |-> w, temp |-> t, strip |-> strip],
                 SendJSTemplate(w, t, strip))

NextHttp ==
  \/ DoReturnServerError
  \/ DoReturnApplicationError
  \/ DoSendString
  \/ DoSendJS
  \/ DoSendByteArray
  \/ DoSendByteArrayUncompressed
  \/ DoSendTemplate
  \/ DoSendHTMLTemplate
  \/ DoSendJSTemplate

SpecHttp == InitHttp /\ [][NextHttp]_vars

(***************************************************************************)
(* Properties.  Those about a reader that is handed arbitrary bytes are    *)
(* stated of SpecDecode, those about a writer and its reader of Spec.      *)
(***************************************************************************)
Range(d) == {d[i] : i \in 1..Len(d)}

\* The field a session's read was due
Due == res.exp[1].v

\* C1: ReadByteArray, on a buffer whose first four bytes decode to the
\* little-endian count c, fails with an error when fewer than c bytes follow
\* the header, and whenever it returns without error the bytes it returns are
\* exactly c.
C1_ReadByteArrayExact ==
  res.op = "ReadByteArray" /\ BufLen(Pre) >= 4 =>
    LET h == ReadUint32(Pre)
    IN  /\ Less(FromInt(BufLen(h.b)), h.val) => res.err # Nil
        /\ res.err = Nil => FromInt(Len(res.val)) = h.val

\* A count of one with nothing after it is read as the empty blob, without
\* error
C1_ShortBlobReturned ==
  /\ res.op = "ReadByteArray"
  /\ Unread(Pre) = <<1, 0, 0, 0>>
  /\ res.err = Nil
  /\ res.val = << >>

ScalarReads == {"ReadByte", "ReadBool", "ReadUint16", "ReadUint32", "ReadFloat32"}

\* The read that matches the write of each kind of scalar field
ReadOf ==
  [k \in {"Byte", "Bool", "Uint16", "Uint32", "Float32"} |-> "Read" \o k]

\* C2: a uint16, uint32, byte, bool or float32 bit pattern written with its
\* Write operation and read with the matching Read operation is returned
\* unchanged and without error.
C2_ScalarRoundTrip ==
  res.op \in ScalarReads /\ res.exp # << >> /\ res.aligned
    /\ res.exp[1].kind \in DOMAIN ReadOf /\ res.op = ReadOf[res.exp[1].kind] =>
      res.err = Nil /\ res.val = Due

\* 258, whose two bytes differ, written to the empty buffer and read back
C2_Uint16ReadBack ==
  /\ res.op = "ReadUint16"
  /\ res.aligned
  /\ Unread(Pre) = <<2, 1>>
  /\ Due = 258
  /\ res.val = 258
  /\ res.err = Nil

\* t is after the base by more than n units, or before the base
OutOfRange(t, n, unit) == SLess(t, Zero) \/ SLess(After(n, unit), t)

\* C3: a date before the base, more than 2^32-1 minutes after it for
\* WriteDateToUInt32, or more than 65535 days after it for WriteDate, makes
\* the write return an error, and nothing is written for it.
C3_RangeOverflow ==
  /\ res.op = "WriteDateToUInt32" /\ OutOfRange(res.arg.t, MaxUint32, Minute)
       => res.err # Nil /\ BufLen(Buf) = BufLen(Pre)
  /\ res.op = "WriteDate" /\ OutOfRange(res.arg.t, FromInt(MaxUint16), Day)
       => res.err # Nil /\ BufLen(Buf) = BufLen(Pre)

\* The minute before the base is written as the largest uint32, without error
C3_WrappedDateWritten ==
  /\ res.op = "WriteDateToUInt32"
  /\ res.arg.t = Before(Zero, Minute)
  /\ res.err = Nil
  /\ Unread(Buf) = Unread(Pre) \o <<255, 255, 255, 255>>

\* t truncated toward zero to whole minutes, and the day t falls on
TruncMinutes(t) == After(DivFactors(t.mag, MinuteFactors).q, Minute)

DayOf(t) == DivFactors(t.mag, <<24>> \o HourFactors).q

\* C4: for a time t from the base up to 2^32-1 minutes after it,
\* ReadDateFromUInt32 of what WriteDateToUInt32(t) wrote is t truncated toward
\* zero to whole minutes, and so falls on the same day as t.
C4_MinuteRoundTrip ==
  res.op = "ReadDateFromUInt32" /\ res.exp # << >> /\ res.aligned
    /\ ~OutOfRange(Due.t, MaxUint32, Minute) =>
      /\ res.err = Nil
      /\ res.val = TruncMinutes(Due.t)
      /\ DayOf(res.val) = DayOf(Due.t)

\* A nanosecond before the end of the 366th day is read back as the start of
\* the next day
C4_NextDayRead ==
  /\ res.op = "ReadDateFromUInt32"
  /\ res.aligned
  /\ Due.t = Before(After(FromInt(527040), Minute), Nanosecond)
  /\ res.err = Nil
  /\ res.val = After(FromInt(527040), Minute)
  /\ DayOf(res.val) = Add(DayOf(Due.t), <<1>>)

\* The read failed and left nothing unread, the offset within the bytes
Exhausted ==
  /\ res.err # Nil
  /\ BufLen(Buf) = 0
  /\ Buf.off = Len(Buf.buf)
  /\ Buf.buf = Pre.buf

\* C5: ReadUint16, ReadUint32, ReadByte, ReadBool, ReadByteArrayNoLength(l)
\* and ReadString, on a buffer with fewer unread bytes than they need (2, 4,
\* 1, 1, l, or no zero byte before the end), return an error, read nothing
\* beyond the end, and leave no byte unread.
C5_ShortReadFails ==
  /\ res.op = "ReadUint16" /\ BufLen(Pre) < 2 => Exhausted
  /\ res.op = "ReadUint32" /\ BufLen(Pre) < 4 => Exhausted
  /\ res.op \in {"ReadByte", "ReadBool"} /\ BufLen(Pre) < 1 => Exhausted
  /\ res.op = "ReadByteArrayNoLength" /\ BufLen(Pre) < res.arg => Exhausted
  /\ res.op = "ReadString" /\ 0 \notin Range(Unread(Pre)) => Exhausted

\* Three bytes are left and ReadUint32 fails, having consumed them
C5_ThreeBytesConsumed ==
  /\ res.op = "ReadUint32"
  /\ BufLen(Pre) = 3
  /\ res.err # Nil
  /\ BufLen(Buf) = 0

\* C6: an operation that returns a nil error has succeeded in every step:
\* ReadTime returns an error whenever the blob holding the time cannot be
\* decoded.
C6_NoDroppedError ==
  res.op = "ReadTime" /\ BufLen(Pre) >= 4 /\ res.err = Nil =>
    GobDecode(ReadByteArray(Pre).val).err = Nil

\* The empty blob is no time, and ReadTime returns the zero Time for it
\* without error
C6_UndecodedTimeReturned ==
  /\ res.op = "ReadTime"
  /\ Unread(Pre) = <<0, 0, 0, 0>>
  /\ res.err = Nil
  /\ res.val = ZeroTime

\* C7: an array of strings, or of blobs, of any length, written with
\* WriteStrings or WriteByteArrayArray and read with ReadStrings or
\* ReadByteArrayArray, is returned with the same elements in the same order
\* and without error; the empty array is written as a zero count and nothing
\* else.
C7_ArrayRoundTrip ==
  /\ res.op \in {"ReadStrings", "ReadByteArrayArray"} /\ res.exp # << >> /\ res.aligned
       => res.err = Nil /\ res.val = Due
  /\ res.op \in {"WriteStrings", "WriteByteArrayArray"} /\ res.arg = << >>
       => res.err = Nil /\ Unread(Buf) = Unread(Pre) \o <<0, 0>>

\* An array of 65536 strings is read back as the empty array
C7_LongArrayReadEmpty ==
  /\ res.op = "ReadStrings"
  /\ res.aligned
  /\ Len(Unpaged(Due)) = MaxUint16 + 1
  /\ res.err = Nil
  /\ res.val = << >>

\* C8: a string s without a zero byte written with WriteString and read with
\* ReadString is returned unchanged and without error, and the read consumes
\* len(s) + 1 bytes.
C8_StringRoundTrip ==
  res.op = "ReadString" /\ res.exp # << >> /\ res.aligned =>
    /\ res.err = Nil
    /\ res.val = Due
    /\ BufLen(Pre) - BufLen(Buf) = Len(Due) + 1

\* "ab" read back, three bytes consumed
C8_StringReadBack ==
  /\ res.op = "ReadString"
  /\ res.aligned
  /\ Due = <<97, 98>>
  /\ res.val = <<97, 98>>
  /\ res.err = Nil
  /\ Buf.off = Pre.off + 3

RECURSIVE BlobsPresent(_, _)
BlobsPresent(d, c) ==
  \/ c = 0
  \/ /\ Len(d) >= 4
     /\ LET l == LittleEndianUint32(SubSeq(d, 1, 4))
        IN  /\ Leq(l, FromInt(Len(d) - 4))
            /\ BlobsPresent(SubSeq(d, 5 + ToInt(l), Len(d)), c - 1)

StringsPresent(d, c) == Cardinality({i \in 1..Len(d) : d[i] = 0}) >= c

\* C10: ReadStrings, ReadByteArrayArray and ReadMarshaller, when the buffer
\* ends before every element or payload byte its counts declare, return an
\* error; nothing is returned to the caller and nothing handed to
\* UnmarshalBinary.
C10_AbortAtFirstFailure ==
  LET d == Unread(Pre)
      rest == SubSeq(d, 3, Len(d))
  IN  /\ res.op = "ReadStrings" /\ Len(d) >= 2
           /\ ~StringsPresent(rest, LittleEndianUint16(SubSeq(d, 1, 2)))
           => res.err # Nil /\ res.val = << >>
      /\ res.op = "ReadByteArrayArray" /\ Len(d) >= 2
           /\ ~BlobsPresent(rest, LittleEndianUint16(SubSeq(d, 1, 2)))
           => res.err # Nil /\ res.val = << >>
      /\ res.op = "ReadMarshaller" /\ ~BlobsPresent(d, 1)
           => res.err # Nil /\ res.val = << >>

\* One blob of one byte is declared and none is there: ReadByteArrayArray
\* returns an empty blob for it, without error
C10_ShortElementReturned ==
  /\ res.op = "ReadByteArrayArray"
  /\ Unread(Pre) = <<1, 0, 1, 0, 0, 0>>
  /\ res.err = Nil
  /\ res.val = Pages(<< << >> >>)


\* Byte k of the natural number v, (v / 256^k) mod 256, and the number that
\* the bytes d stand for, the sum of d[k + 1] * 256^k
RECURSIVE ByteAt(_, _)
ByteAt(v, k) ==
  IF k = 0 THEN DivSmall(v, 256).r ELSE ByteAt(DivSmall(v, 256).q, k - 1)

RECURSIVE ValueOf(_)
ValueOf(d) ==
  IF d = << >> THEN << >>
  ELSE Add(FromInt(Head(d)), MulSmall(ValueOf(Tail(d)), 256))

\* The bytes the last operation appended, and those it consumed
Appended == SubSeq(Unread(Buf), BufLen(Pre) + 1, BufLen(Buf))

Consumed == SubSeq(Pre.buf, Pre.off + 1, Buf.off)

\* Nothing was consumed and what was unread is still unread, before the
\* bytes appended
AppendOnly ==
  SubSeq(Unread(Buf), 1, BufLen(Pre)) = Unread(Pre) /\ BufLen(Buf) >= BufLen(Pre)

\* C11: WriteUint16 appends exactly 2 bytes and WriteUint32 exactly 4, the
\* least significant first: byte k is (value / 256^k) mod 256.  ReadUint16
\* and ReadUint32 return the sum of byte k * 256^k over the bytes consumed.
C11_LittleEndian ==
  /\ res.op = "WriteUint16" =>
       /\ res.err = Nil /\ AppendOnly
       /\ Appended = [k \in 1..2 |-> ByteAt(FromInt(res.arg), k - 1)]
  /\ res.op = "WriteUint32" =>
       /\ res.err = Nil /\ AppendOnly
       /\ Appended = [k \in 1..4 |-> ByteAt(res.arg, k - 1)]
  /\ res.op = "ReadUint16" /\ res.err = Nil =>
       Len(Consumed) = 2 /\ FromInt(res.val) = ValueOf(Consumed)
  /\ res.op = "ReadUint32" /\ res.err = Nil =>
       Len(Consumed) = 4 /\ res.val = ValueOf(Consumed)

\* 2^31 was written as 00 00 00 80 and is read back from those bytes
C11_HighByteLast ==
  /\ res.op = "ReadUint32"
  /\ Consumed = <<0, 0, 0, 128>>
  /\ res.val = Pow2(31)
  /\ res.exp # << >>
  /\ Due = Pow2(31)

\* C12: WriteBool appends exactly one byte, 0 for false and 1 for true;
\* ReadBool returns false for the byte 0 and true for every other byte.
C12_BoolByte ==
  /\ res.op = "WriteBool" =>
       /\ res.err = Nil /\ AppendOnly
       /\ Appended = <<IF res.arg THEN 1 ELSE 0>>
  /\ res.op = "ReadBool" /\ BufLen(Pre) >= 1 =>
       /\ res.err = Nil
       /\ Len(Consumed) = 1
       /\ res.val = (Consumed[1] # 0)

\* The byte 255 is read as true
C12_AnyByteTrue ==
  /\ res.op = "ReadBool"
  /\ Consumed = <<255>>
  /\ res.err = Nil
  /\ res.val = TRUE


\* C13: for a time t from the base to 65535 days after it, a nanosecond
\* before a day boundary included, WriteDate writes the number of whole days
\* from the base to t, and ReadDate of it returns the base plus that many
\* days.
C13_DayRoundTrip ==
  res.op = "ReadDate" /\ res.exp # << >> /\ res.aligned
    /\ ~OutOfRange(Due.t, FromInt(MaxUint16), Day) =>
      /\ res.err = Nil
      /\ ValueOf(Consumed) = DayOf(Due.t)
      /\ res.val = After(DayOf(Due.t), Day)

\* A nanosecond before the end of day 39999 is written as day 40000
C13_NextDayWritten ==
  /\ res.op = "ReadDate"
  /\ res.aligned
  /\ Due.t = Before(After(FromInt(40000), Day), Nanosecond)
  /\ ValueOf(Consumed) = FromInt(40000)
  /\ res.err = Nil
  /\ res.val = After(FromInt(40000), Day)


\* C14: WriteMarshaller(b, m) appends the bytes WriteByteArray(b, p) appends
\* for the result p of m.MarshalBinary(), the length of p in four bytes and
\* then p; when MarshalBinary fails its error is returned and the buffer is
\* as it was.  ReadMarshaller hands UnmarshalBinary the payload that
\* ReadByteArray returns.
C14_MarshallerAsByteArray ==
  /\ res.op = "WriteMarshaller" /\ res.arg.err = Nil =>
       LET w == WriteByteArray(Pre, res.arg.data)
       IN  /\ Buf = w.b
           /\ res.err = w.err
           /\ AppendOnly
           /\ Appended = [k \in 1..4 |-> ByteAt(FromInt(Len(res.arg.data)), k - 1)]
                           \o res.arg.data
  /\ res.op = "WriteMarshaller" /\ res.arg.err # Nil =>
       res.err = res.arg.err /\ buffer = res.pre
  /\ res.op = "ReadMarshaller" =>
       LET r == ReadByteArray(Pre)
       IN  /\ Buf = r.b
           /\ r.err = Nil => res.val = <<r.val>> /\ res.err = res.arg
           /\ r.err # Nil => res.val = << >> /\ res.err = r.err

\* The payload 07, written with its length, is handed to UnmarshalBinary
C14_PayloadHandedOver ==
  /\ res.op = "ReadMarshaller"
  /\ res.aligned
  /\ Consumed = <<1, 0, 0, 0, 7>>
  /\ Due.data = <<7>>
  /\ res.val = << <<7>> >>


IsRead == res.op \in DOMAIN KindsRead

IsWrite == res.op \notin DOMAIN KindsRead \cup {"none"}

\* The sequence s is the end of the sequence t
IsSuffix(s, t) ==
  Len(s) <= Len(t) /\ s = SubSeq(t, Len(t) - Len(s) + 1, Len(t))

\* C15: after any sequence of reads and writes, failed ones included, the
\* offset of the buffer lies within the bytes it holds; a read leaves unread
\* an end of what was unread before it, so that it consumes zero or more
\* bytes and never more than there were, and a write leaves what was unread
\* in place and unconsumed, adding its bytes after it.
C15_CursorWithinData ==
  /\ 0 <= Buf.off /\ Buf.off <= Len(Buf.buf)
  /\ IsRead => IsSuffix(Unread(Buf), Unread(Pre))
  /\ IsWrite => AppendOnly

\* A ReadUint32 that found two bytes failed and consumed both; the write
\* after it left nothing of them to read
C15_WriteAfterFailedRead ==
  /\ IsWrite
  /\ Pre.held = NoSlice
  /\ Pre.off = 2 /\ BufLen(Pre) = 0
  /\ BufLen(Buf) > 0


\* C19: the bytes a successful ReadByteArrayNoLength or ReadByteArray
\* returned stay what they were when they were read, whatever is read from
\* or written to the buffer afterwards, a write after a read that emptied
\* the buffer included.
C19_ReturnedBytesKept == Buf.held.data = Buf.held.orig

\* ReadByteArrayNoLength(b, 2) returned 01 00 and emptied a buffer made of
\* those two bytes; WriteByte(b, 7) then wrote over the first of them
C19_WrittenOverReturned ==
  /\ res.op = "WriteByte"
  /\ Pre.held = [orig |-> <<1, 0>>, data |-> <<1, 0>>, at |-> 0, live |-> TRUE]
  /\ BufLen(Pre) = 0
  /\ Buf.held.data = <<7, 0>>
  /\ Unread(Buf) = <<7>>


\* The kinds of field that are written and read in order
ComposedKinds ==
  {"Byte", "Bool", "Uint16", "Uint32", "String", "ByteArray", "Strings",
   "ByteArrayArray"}

\* The last operation was the read that matches the write of the field due
Matching ==
  /\ res.exp # << >>
  /\ res.exp[1].kind \in ComposedKinds
  /\ res.op = "Read" \o res.exp[1].kind

Contains(s, t) == \E i \in 0..(Len(s) - Len(t)) : SubSeq(s, i + 1, i + Len(t)) = t



\* The response of the last handler, and what it logged
Response == res.val.w

Logged == res.val.log

\* C16: ReturnServerError answers with status 500 and a body that contains
\* "Internal server error", with an error and without one;
\* ReturnApplicationError answers with the Code of the HttpError as status
\* and a body that contains its Message, whatever Log and Error are.
C16_StatusAndMessage ==
  /\ res.op = "ReturnServerError" =>
       /\ Response.code = 500
       /\ Contains(Response.body, serverErrorMessage)
  /\ res.op = "ReturnApplicationError" =>
       /\ Response.code = res.arg.err.Code
       /\ Contains(Response.body, res.arg.err.Message)

\* A 404 with the message "A", an error that is not logged
C16_NotFoundNotLogged ==
  /\ res.op = "ReturnApplicationError"
  /\ ~res.arg.err.Log /\ res.arg.err.Error = << <<66>> >>
  /\ res.arg.err.Code = 404 /\ res.arg.err.Message = <<65>>
  /\ Response.wroteHeader /\ Response.code = 404
  /\ Response.body = <<65, 10>>
  /\ Logged = << >>

Senders == {"SendString", "SendJS", "SendByteArray", "SendByteArrayUncompressed"}

\* C18: the body of the response of SendString, SendJS, SendByteArray and
\* SendByteArrayUncompressed, with the Content-Encoding it declares undone
\* (gzip, or nothing when there is none), is the payload when every write
\* succeeds; the first three declare gzip and SendByteArrayUncompressed
\* declares no Content-Encoding.
C18_PayloadDelivered ==
  res.op \in Senders /\ res.arg.writer = NewRecorder =>
    /\ ResponseAsByteArrayTest(Response) = [data |-> res.arg.data, err |-> Nil]
    /\ Response.sent = Response.header
    /\ IF res.op = "SendByteArrayUncompressed"
       THEN "Content-Encoding" \notin DOMAIN Response.sent
       ELSE HeaderGet(Response.sent, "Content-Encoding") = "gzip"

\* "A\n" sent as a string: the body is a gzip stream, not the payload
C18_StringCompressed ==
  /\ res.op = "SendString"
  /\ res.arg.writer = NewRecorder
  /\ res.arg.data = <<65, 10>>
  /\ Response.body # res.arg.data
  /\ SubSeq(Response.body, 1, 3) = <<31, 139, 8>>
  /\ Response.code = 200
  /\ Gunzip(Response.body).data = <<65, 10>>


\* The handlers that send through SendResponse and SendTemplate
Templated == {"SendTemplate", "SendHTMLTemplate", "SendJSTemplate"}

\* The handler went on to ReturnServerError: a write of SendResponse or the
\* execution of the template of SendTemplate failed
Failed == res.op \in Senders \cup Templated /\ Logged # << >>

\* C21: when a write fails in SendResponse, or the execution of the template
\* in SendTemplate, the response has status 500 and its body is the message
\* of a server error and nothing else; it does not declare the
\* Content-Encoding gzip over a body that is not a gzip stream.
C21_FailureAnswered ==
  Failed =>
    /\ Response.code = 500
    /\ Response.body = serverErrorMessage \o <<10>>
    /\ HeaderGet(Response.sent, "Content-Encoding") = "gzip" =>
         Gunzip(Response.body).err = Nil

\* A template wrote "A" and then failed with "B": the response recorded has
\* status 200 and declares gzip, and its body is the gzip header, then the
\* message, then what the deferred Close wrote
C21_MessageInsideStream ==
  /\ res.op = "SendHTMLTemplate"
  /\ res.arg.writer = NewRecorder
  /\ res.arg.temp = [out |-> << <<65>> >>, err |-> << <<66>> >>]
  /\ Failed
  /\ Response.code = 200
  /\ HeaderGet(Response.sent, "Content-Encoding") = "gzip"
  /\ Response.body = GzipHeader \o serverErrorMessage \o <<10>>
                       \o Deflate(<<65>>) \o GzipTrailer(<<65>>)
  /\ Gunzip(Response.body).err # Nil

====
